---------------------------- MODULE Spec2Model ----------------------------
(***************************************************************************)
(* A model of the salon web site's record store (database.js), of the      *)
(* express routes that wrap it (server.js) and of the browser's booking    *)
(* form (admin/booking-integration.js).                                    *)
(*                                                                         *)
(* JavaScript values are modelled as records [type, val]; a JavaScript     *)
(* string is the sequence of its characters, so that the conversions the   *)
(* code relies on (String(n), ToNumber(s), parseInt(s), JSON) are computed *)
(* and not assumed.  A JavaScript object (a record of a table) is a        *)
(* function from its own property names to values.  Array indices are      *)
(* 1-based here; "no index" (-1 in JavaScript) is 0.                       *)
(***************************************************************************)
EXTENDS Integers, Sequences, FiniteSets, TLC

(***************************************************************************)
(* Bounds of the model.                                                    *)
(***************************************************************************)
\* Date.now() ranges over 1..MaxClock.
MaxClock == 2
\* No table grows beyond MaxLen records.
MaxLen == 2
\* A run of the store makes at most MaxCalls store calls and disk faults.
MaxCalls == 3

(***************************************************************************)
(* JavaScript values.                                                      *)
(***************************************************************************)
Num(n) == [type |-> "number", val |-> n]

Str(s) == [type |-> "string", val |-> s]

Bool(b) == [type |-> "boolean", val |-> b]

Obj(o) == [type |-> "object", val |-> o]

Undefined == [type |-> "undefined", val |-> 0]

Null == [type |-> "null", val |-> 0]

NaN == [type |-> "NaN", val |-> 0]

\* o[k] in JavaScript: a property the object lacks reads as undefined.
Get(o, k) == IF k \in DOMAIN o THEN o[k] ELSE Undefined

\* { ...a, ...b }: the properties of both, b's values winning.
Spread(a, b) ==
    [k \in (DOMAIN a) \cup (DOMAIN b) |-> IF k \in DOMAIN b THEN b[k] ELSE a[k]]

\* !v for the value kinds that occur.
Falsy(v) ==
    \/ v.type \in {"undefined", "null", "NaN"}
    \/ v.type = "string" /\ v.val = <<>>
    \/ v.type = "number" /\ v.val = 0
    \/ v.type = "boolean" /\ v.val = FALSE

\* a || b
OrElse(a, b) == IF Falsy(a) THEN b ELSE a

(***************************************************************************)
(* Number <-> string conversions.                                          *)
(***************************************************************************)
DigitChars == <<"0", "1", "2", "3", "4", "5", "6", "7", "8", "9">>

IsDigit(c) == \E i \in 1..10 : DigitChars[i] = c

DigitVal(c) == (CHOOSE i \in 1..10 : DigitChars[i] = c) - 1

IsSpace(c) == c = " "

\* String(n) for an integer n >= 0: its decimal digits.
RECURSIVE NumberToString(_)
NumberToString(n) ==
    IF n < 10 THEN <<DigitChars[n + 1]>>
    ELSE NumberToString(n \div 10) \o <<DigitChars[(n % 10) + 1]>>

RECURSIVE TrimLeft(_)
TrimLeft(s) == IF s # <<>> /\ IsSpace(Head(s)) THEN TrimLeft(Tail(s)) ELSE s

RECURSIVE TrimRight(_)
TrimRight(s) ==
    IF s # <<>> /\ IsSpace(s[Len(s)]) THEN TrimRight(SubSeq(s, 1, Len(s) - 1)) ELSE s

\* The value of a sequence of decimal digits.
RECURSIVE DigitsValue(_)
DigitsValue(s) ==
    IF s = <<>> THEN 0
    ELSE 10 * DigitsValue(SubSeq(s, 1, Len(s) - 1)) + DigitVal(s[Len(s)])

\* ToNumber(string): white space is trimmed, the empty string is 0, a run of
\* decimal digits is its value, anything else is NaN.  (Signs, fractions,
\* exponents and 0x literals do not occur in the strings of the model.)
StringToNumber(s) ==
    LET t == TrimRight(TrimLeft(s))
    IN  IF t = <<>> THEN Num(0)
        ELSE IF \A i \in 1..Len(t) : IsDigit(t[i]) THEN Num(DigitsValue(t))
        ELSE NaN

\* The longest prefix of decimal digits.
RECURSIVE DigitPrefix(_)
DigitPrefix(s) ==
    IF s # <<>> /\ IsDigit(Head(s)) THEN <<Head(s)>> \o DigitPrefix(Tail(s)) ELSE <<>>

\* parseInt(string): leading white space is skipped and the longest prefix of
\* digits is read; no digit at all is NaN.
ParseInt(s) ==
    LET p == DigitPrefix(TrimLeft(s))
    IN  IF p = <<>> THEN NaN ELSE Num(DigitsValue(p))

\* ToNumber of a primitive.
ToNumber(v) ==
    CASE v.type = "number" -> v
      [] v.type = "string" -> StringToNumber(v.val)
      [] v.type = "boolean" -> Num(IF v.val THEN 1 ELSE 0)
      [] v.type = "null" -> Num(0)
      [] OTHER -> NaN

\* a === b on primitives.
StrictEq(a, b) == a.type = b.type /\ a.type # "NaN" /\ a.val = b.val

\* item.id === id in place of item.id == id.
LooseEqStrict(a, b) == StrictEq(a, b)

\* a == b on primitives (the abstract equality comparison).
LooseEq(a, b) ==
    LET nullish == {"undefined", "null"}
    IN  IF a.type = "NaN" \/ b.type = "NaN" THEN FALSE
        ELSE IF a.type \in nullish \/ b.type \in nullish
             THEN a.type \in nullish /\ b.type \in nullish
        ELSE IF a.type = b.type THEN a.val = b.val
        ELSE StrictEq(ToNumber(a), ToNumber(b))

\* new Date().toISOString() at clock value t.  The calendar text is abstracted
\* as the letter T followed by the digits of t: distinct instants give
\* distinct strings.
ISOString(t) == Str(<<"T">> \o NumberToString(t))

(***************************************************************************)
(* JSON: what fs.writeJsonSync writes and fs.readJsonSync reads back.      *)
(* JSON.stringify leaves out a property whose value is undefined and       *)
(* writes NaN as null.                                                     *)
(***************************************************************************)
JsonValue(v) == IF v.type = "NaN" THEN Null ELSE v

JsonObject(o) ==
    [k \in {j \in DOMAIN o : o[j].type # "undefined"} |-> JsonValue(o[k])]

JsonArray(data) == [i \in 1..Len(data) |-> JsonObject(data[i])]

(***************************************************************************)
(* The record store (database.js).                                         *)
(***************************************************************************)
dbFiles == {"admins", "products", "services", "bookings", "gallery", "videos", "profiles"}

\* A file of the data directory: a JSON array, no file, or text that does
\* not parse.
ArrayFile(data) == [kind |-> "array", data |-> data]

MissingFile == [kind |-> "missing", data |-> <<>>]

GarbageFile == [kind |-> "garbage", data |-> <<>>]

\* A JSON array on a disk that takes no more writes.
ReadOnlyFile(data) == [kind |-> "readonly", data |-> data]

\* A data directory that holds no table file.
FreshDirectory == [t \in dbFiles |-> MissingFile]

\* An initialisation that writes [] to every file.
InitialiseAll(files) == [t \in dbFiles |-> ArrayFile(<<>>)]

\* An initialisation that creates nothing.
InitialiseNone(files) == files

\* Module initialisation: every file that does not exist is created as [];
\* a file that exists is left as it is.
Initialise(files) ==
    [t \in dbFiles |-> IF files[t].kind = "missing" THEN ArrayFile(<<>>) ELSE files[t]]

\* The data directory after initialisation of a fresh one.
InitFiles == Initialise(FreshDirectory)

\* fs.readJsonSync: throws when the file is missing or does not parse.
ReadJsonSync(files, table) ==
    [threw |-> files[table].kind \notin {"array", "readonly"}, value |-> files[table].data]

\* db.read without its try/catch.
DbReadNoCatch(files, table) == ReadJsonSync(files, table)

\* db.read: the parsed file, or [] when reading or parsing throws.
DbRead(files, table) ==
    LET r == ReadJsonSync(files, table)
    IN  [threw |-> FALSE, value |-> IF r.threw THEN <<>> ELSE r.value]

\* A db.write that takes the bookings file whatever the table.
DbWriteOneFile(files, table, data) ==
    [files EXCEPT !["bookings"] = ArrayFile(JsonArray(data))]

\* db.write: the whole file is replaced.
DbWrite(files, table, data) ==
    [files EXCEPT ![table] = ArrayFile(JsonArray(data))]

\* A search that finds the last match.
FindLastIndex(data, id) ==
    LET hits == {i \in 1..Len(data) : LooseEq(Get(data[i], "id"), id)}
    IN  IF hits = {} THEN 0 ELSE CHOOSE i \in hits : \A j \in hits : i >= j

\* data.findIndex(item => item.id == id); 0 when there is none.
FindIndex(data, id) ==
    LET hits == {i \in 1..Len(data) : LooseEq(Get(data[i], "id"), id)}
    IN  IF hits = {} THEN 0 ELSE CHOOSE i \in hits : \A j \in hits : i <= j

\* The outcome of a store call: the files afterwards, the value returned, the
\* number of db.write calls made and whether the call threw.
Outcome(files, ret, writes) ==
    [files |-> files, ret |-> ret, writes |-> writes, threw |-> FALSE]

Thrown(files) ==
    [files |-> files, ret |-> Undefined, writes |-> 0, threw |-> TRUE]

\* fs.writeJsonSync throws when the disk takes no writes.
WriteThrows(files, table) == files[table].kind = "readonly"

\* A store call that ends in the exception of its one db.write.
WriteFailed(files) ==
    [files |-> files, ret |-> Undefined, writes |-> 1, threw |-> TRUE]

\* A db.write wrapped in a try/catch that drops the exception.
WrittenSwallowed(files, table, data, ret) ==
    IF WriteThrows(files, table) THEN Outcome(files, ret, 1)
    ELSE Outcome(DbWrite(files, table, data), ret, 1)

\* db.write(table, data); return ret: the end of insert, update and delete.
\* Nothing catches what db.write throws.
Written(files, table, data, ret) ==
    IF WriteThrows(files, table) THEN WriteFailed(files)
    ELSE Outcome(DbWrite(files, table, data), ret, 1)

\* A call of db.write by a caller.
DbWriteCall(files, table, data) == Written(files, table, data, Undefined)

\* An array as a JavaScript value.
Arr(data) == [type |-> "array", val |-> data]

\* A call of db.read by a caller.
DbReadCall(files, table) ==
    LET r == DbRead(files, table)
    IN  IF r.threw THEN Thrown(files) ELSE Outcome(files, Arr(r.value), 0)

\* db.insert with unshift in place of push.
DbInsertPrepend(files, table, record, clock) ==
    LET r == DbRead(files, table)
        rec == Spread(record, [id |-> Num(clock), created_at |-> ISOString(clock)])
    IN  IF r.threw THEN Thrown(files)
        ELSE Written(files, table, <<rec>> \o r.value, Obj(rec))

\* db.insert that keeps an id the caller supplied.
DbInsertKeepId(files, table, record, clock) ==
    LET r == DbRead(files, table)
        rec == Spread([id |-> Num(clock), created_at |-> ISOString(clock)], record)
    IN  IF r.threw THEN Thrown(files)
        ELSE Written(files, table, Append(r.value, rec), Obj(rec))

\* db.insert.  record.id = ... and record.created_at = ... assign to the
\* caller's object, which is the object pushed and returned.
DbInsert(files, table, record, clock) ==
    LET r == DbRead(files, table)
        rec == Spread(record, [id |-> Num(clock), created_at |-> ISOString(clock)])
    IN  IF r.threw THEN Thrown(files)
        ELSE Written(files, table, Append(r.value, rec), Obj(rec))

\* db.findById
DbFindById(files, table, id) ==
    LET r == DbRead(files, table)
        index == FindIndex(r.value, id)
    IN  IF r.threw THEN Thrown(files)
        ELSE Outcome(files, IF index = 0 THEN Undefined ELSE Obj(r.value[index]), 0)

\* db.update with the spreads in the wrong order: the existing fields win.
DbUpdateKeepOld(files, table, id, updates, clock) ==
    LET r == DbRead(files, table)
        index == FindIndex(r.value, id)
        rec == Spread(Spread(updates, r.value[index]), [updated_at |-> ISOString(clock)])
    IN  IF r.threw THEN Thrown(files)
        ELSE IF index = 0 THEN Outcome(files, Null, 0)
        ELSE Written(files, table, [r.value EXCEPT ![index] = rec], Obj(rec))

\* db.update without "if (index === -1) return null": data[-1] = {...} sets
\* a property that is no element, the array is written back and the new
\* object is returned.
DbUpdateNoGuard(files, table, id, updates, clock) ==
    LET r == DbRead(files, table)
        index == FindIndex(r.value, id)
        old == IF index = 0 THEN <<>> ELSE r.value[index]
        rec == Spread(Spread(old, updates), [updated_at |-> ISOString(clock)])
        data == IF index = 0 THEN r.value ELSE [r.value EXCEPT ![index] = rec]
    IN  IF r.threw THEN Thrown(files)
        ELSE Written(files, table, data, Obj(rec))

\* db.update without the spread of the existing record.
DbUpdateReplace(files, table, id, updates, clock) ==
    LET r == DbRead(files, table)
        index == FindIndex(r.value, id)
        rec == Spread(updates, [updated_at |-> ISOString(clock)])
    IN  IF r.threw THEN Thrown(files)
        ELSE IF index = 0 THEN Outcome(files, Null, 0)
        ELSE Written(files, table, [r.value EXCEPT ![index] = rec], Obj(rec))

\* db.update that takes the record out and pushes the new one at the end.
DbUpdateMoveToEnd(files, table, id, updates, clock) ==
    LET r == DbRead(files, table)
        index == FindIndex(r.value, id)
        rec == Spread(Spread(r.value[index], updates), [updated_at |-> ISOString(clock)])
        rest == SubSeq(r.value, 1, index - 1) \o SubSeq(r.value, index + 1, Len(r.value))
    IN  IF r.threw THEN Thrown(files)
        ELSE IF index = 0 THEN Outcome(files, Null, 0)
        ELSE Written(files, table, Append(rest, rec), Obj(rec))

\* db.update
DbUpdate(files, table, id, updates, clock) ==
    LET r == DbRead(files, table)
        index == FindIndex(r.value, id)
        rec == Spread(Spread(r.value[index], updates), [updated_at |-> ISOString(clock)])
    IN  IF r.threw THEN Thrown(files)
        ELSE IF index = 0 THEN Outcome(files, Null, 0)
        ELSE Written(files, table, [r.value EXCEPT ![index] = rec], Obj(rec))

\* data.splice(index, 1)
Splice(data, index) ==
    SubSeq(data, 1, index - 1) \o SubSeq(data, index + 1, Len(data))

\* db.delete without "if (index === -1) return false": data.splice(-1, 1)
\* removes the last element.
DbDeleteNoGuard(files, table, id) ==
    LET r == DbRead(files, table)
        index == FindIndex(r.value, id)
        at == IF index = 0 THEN Len(r.value) ELSE index
    IN  IF r.threw THEN Thrown(files)
        ELSE Written(files, table, Splice(r.value, at), Bool(TRUE))

\* db.delete
DbDelete(files, table, id) ==
    LET r == DbRead(files, table)
        index == FindIndex(r.value, id)
    IN  IF r.threw THEN Thrown(files)
        ELSE IF index = 0 THEN Outcome(files, Bool(FALSE), 0)
        ELSE Written(files, table, Splice(r.value, index), Bool(TRUE))

(***************************************************************************)
(* State.                                                                  *)
(***************************************************************************)
VARIABLES
    files,     \* the data directory: table name -> file
    now,       \* the clock, Date.now()
    call,      \* the last store call: its operation, arguments and outcome
    prev,      \* the data directory as it was when the last call or request began
    steps,     \* store calls, requests or form submissions made so far
    session,   \* req.session.adminId of the browser's session
    uploads,   \* the names of the files in uploads/
    http,      \* the last request and the response to it
    conc,      \* concurrent store calls: those waiting and the replies given
    page,      \* the booking page: its form, toast, timers and location
    net        \* the requests the booking page has sent

vars == <<files, now, call, prev, steps, session, uploads, http, conc, page, net>>

webVars == <<session, uploads, http>>

formVars == <<page, net>>

NoCall == [op |-> "none", table |-> "none", id |-> Undefined, arg |-> <<>>,
           ret |-> Undefined, writes |-> 0, threw |-> FALSE, clock |-> 0]

Call(op, table, id, arg, out, clock) ==
    [op |-> op, table |-> table, id |-> id, arg |-> arg,
     ret |-> out.ret, writes |-> out.writes, threw |-> out.threw, clock |-> clock]

(***************************************************************************)
(* Inputs of the store calls.                                              *)
(***************************************************************************)
StoreTables == {"products", "bookings"}

\* Records handed to insert: plain fields, a caller-supplied id, a property
\* whose value is undefined.
InputRecords ==
    { [name |-> Str(<<"A">>), price |-> Num(10)],
      [id |-> Num(1), name |-> Str(<<"B">>), notes |-> Undefined] }

\* Fields handed to update.
InputUpdates ==
    { [price |-> Num(20)],
      [id |-> Num(2), name |-> Undefined] }

\* Ids handed to findById, update and delete: numbers, their decimal strings
\* and strings that are no number.
InputIds ==
    {Num(n) : n \in 1..MaxClock}
        \cup {Str(NumberToString(n)) : n \in 1..MaxClock}
        \cup {Str(<<"1", "a">>), NaN}

(***************************************************************************)
(* Actions of the store specification.                                     *)
(***************************************************************************)
Tick ==
    /\ now < MaxClock
    /\ now' = now + 1
    /\ UNCHANGED <<files, call, prev, steps, webVars, conc, formVars>>

Finish(op, table, id, arg, out) ==
    /\ files' = out.files
    /\ call' = Call(op, table, id, arg, out, now)
    /\ prev' = files
    /\ steps' = steps + 1
    /\ UNCHANGED <<now, webVars, conc, formVars>>

Insert ==
    \E table \in StoreTables, record \in InputRecords :
        /\ steps < MaxCalls
        /\ Len(DbRead(files, table).value) < MaxLen
        /\ Finish("insert", table, Undefined, record,
                  DbInsert(files, table, record, now))

Read ==
    \E table \in StoreTables :
        /\ steps < MaxCalls
        /\ Finish("read", table, Undefined, <<>>, DbReadCall(files, table))

FindById ==
    \E table \in StoreTables, id \in InputIds :
        /\ steps < MaxCalls
        /\ Finish("findById", table, id, <<>>, DbFindById(files, table, id))

Update ==
    \E table \in StoreTables, id \in InputIds, updates \in InputUpdates :
        /\ steps < MaxCalls
        /\ Finish("update", table, id, updates,
                  DbUpdate(files, table, id, updates, now))

Delete ==
    \E table \in StoreTables, id \in InputIds :
        /\ steps < MaxCalls
        /\ Finish("delete", table, id, <<>>, DbDelete(files, table, id))

\* No request yet.
NoRequest == [route |-> "none", table |-> "none", param |-> <<>>, valid |-> TRUE,
              admin |-> Null, status |-> 0, writes |-> 0, threw |-> FALSE]

\* The clients whose store calls may overlap.
Clients == {"a", "b"}

\* A client that has made no call.
Idle == [pc |-> "idle", op |-> "none", id |-> Undefined, arg |-> <<>>,
         data |-> <<>>, ret |-> Undefined, overlap |-> FALSE]

NoConc == [c \in Clients |-> Idle]

\* The booking page as loaded: an empty form, nothing sent, nothing scheduled.
EmptyForm == [name |-> <<>>, phone |-> <<>>, service |-> <<>>, date |-> <<>>,
              time |-> <<>>, notes |-> <<>>]

\* The address of the booking page.
BookingPage == [host |-> "booking.html", text |-> <<>>]

FreshPage == [form |-> EmptyForm, marked |-> {}, toast |-> "none", timers |-> <<>>,
              location |-> BookingPage]

\* What every specification starts from: a data directory as the module
\* initialisation leaves it, no session, no upload.
InitWith(directory) ==
    /\ files = directory
    /\ now = 1
    /\ call = NoCall
    /\ prev = directory
    /\ steps = 0
    /\ session = Null
    /\ uploads = {}
    /\ http = NoRequest
    /\ conc = NoConc
    /\ page = FreshPage
    /\ net = <<>>

InitStore == InitWith(InitFiles)

NextStore == Tick \/ Read \/ Insert \/ FindById \/ Update \/ Delete

SpecStore == InitStore /\ [][NextStore]_vars

(***************************************************************************)
(* The store with a failing disk: a table's file is removed, or is left    *)
(* truncated by a write that did not complete, behind the program's back.  *)
(***************************************************************************)
Damage ==
    \E table \in StoreTables, file \in {MissingFile, GarbageFile} :
        /\ steps < MaxCalls
        /\ files[table] # file
        /\ files' = [files EXCEPT ![table] = file]
        /\ call' = [NoCall EXCEPT !.op = "damage", !.table = table]
        /\ prev' = files
        /\ steps' = steps + 1
        /\ UNCHANGED <<now, webVars, conc, formVars>>

NextFault == NextStore \/ Damage

SpecFault == InitStore /\ [][NextFault]_vars

(***************************************************************************)
(* Starting the server.  The data directory is there before the program:   *)
(* fresh, or as earlier runs left it.  Loading database.js initialises it, *)
(* and the server may be started again at any time.                        *)
(***************************************************************************)
\* A record an earlier run has stored.
StoredRecord == [id |-> Num(1), created_at |-> ISOString(1), name |-> Str(<<"A">>)]

\* Data directories the program is started on: the two tables the store
\* calls use are missing, empty, populated or unparsable; the other five
\* are all missing or all empty.
StartDirectories ==
    { [t \in dbFiles |-> IF t = "products" THEN p
                         ELSE IF t = "bookings" THEN b
                         ELSE rest] :
        p \in {MissingFile, ArrayFile(<<>>), ArrayFile(<<StoredRecord>>), GarbageFile},
        b \in {MissingFile, ArrayFile(<<StoredRecord>>)},
        rest \in {MissingFile, ArrayFile(<<>>)} }

\* database.js is loaded: the initialisation runs.
Boot ==
    /\ steps < MaxCalls
    /\ files' = Initialise(files)
    /\ call' = [NoCall EXCEPT !.op = "init"]
    /\ prev' = files
    /\ steps' = steps + 1
    /\ UNCHANGED <<now, webVars, conc, formVars>>

\* The program has been started.
Booted == call.op # "none"

InitBoot == \E directory \in StartDirectories : InitWith(directory)

NextBoot == Boot \/ (Booted /\ NextFault)

SpecBoot == InitBoot /\ [][NextBoot]_vars

(***************************************************************************)
(* The express routes (server.js).  A request is handled by one action:    *)
(* the middleware in front of the handler, the handler and the response.   *)
(***************************************************************************)
\* A run of the routes handles at most MaxRequests requests.
MaxRequests == 2

\* Names server.js calls but neither defines nor imports: evaluating one
\* throws a ReferenceError, which the handler's catch answers with 500.
NotDefined == {"verifyPassword", "hashPassword", "sanitizeInput"}

\* String literals of server.js.
EmptyString == Str(<<>>)

Pending == Str(<<"p", "e", "n", "d", "i", "n", "g">>)

Wig == Str(<<"w", "i", "g">>)

Styling == Str(<<"s", "t", "y", "l", "i", "n", "g">>)

Revamping == Str(<<"r", "e", "v", "a", "m", "p", "i", "n", "g">>)

WigInstallation == Str(<<"w", "i", "g", "-", "i", "n", "s", "t", "a", "l", "l", "a", "t", "i", "o", "n">>)

Retouching == Str(<<"r", "e", "t", "o", "u", "c", "h", "i", "n", "g">>)

Ventilation == Str(<<"v", "e", "n", "t", "i", "l", "a", "t", "i", "o", "n">>)

\* The categories POST /api/products accepts.
ProductCategories == {Revamping, Styling, WigInstallation, Retouching, Ventilation}

UntitledImage == Str(<<"U", "n", "t", "i", "t", "l", "e", "d", " ", "I", "m", "a", "g", "e">>)

UntitledVideo == Str(<<"U", "n", "t", "i", "t", "l", "e", "d", " ", "V", "i", "d", "e", "o">>)

Admin == Str(<<"A", "d", "m", "i", "n">>)

AdminExampleCom == Str(<<"a", "d", "m", "i", "n", "@", "e", "x", "a", "m", "p", "l", "e", ".", "c", "o", "m">>)

True == Str(<<"t", "r", "u", "e">>)

UploadsDir == <<"/", "u", "p", "l", "o", "a", "d", "s", "/">>

\* The :id of a request's path: decimal numbers, a number followed by a
\* letter, and a letter.
IdParams == {NumberToString(n) : n \in 1..MaxClock} \cup {<<"1", "a">>, <<"a">>}

\* parseFloat of a request field: a number is itself, a string is read like
\* parseInt reads it (the strings of the model hold no fraction), anything
\* else is NaN.
ParseFloat(v) ==
    CASE v.type = "number" -> v
      [] v.type = "string" -> ParseInt(v.val)
      [] OTHER -> NaN

\* requireAuth: next() when the session carries an adminId.
RequireAuth(adminId) == ~Falsy(adminId)

\* A handler that answers 200 whatever the store returned.
StatusAlwaysOk(result) == 200

\* if (!result) return res.status(404)...; res.json({ success: true, ... })
StatusOf(result) == IF Falsy(result) THEN 404 ELSE 200

\* The status a handler wrapped in try/catch answers with.
Caught(out) == IF out.threw THEN 500 ELSE StatusOf(out.ret)

\* A handler that made no store call that writes.
Skipped == Outcome(files, Undefined, 0)

\* The response is sent: the request is over.  out is the outcome of the
\* store call the handler made.
Respond(route, table, param, valid, status, out, newUploads) ==
    /\ files' = out.files
    /\ uploads' = newUploads
    /\ http' = [route |-> route, table |-> table, param |-> param, valid |-> valid,
                admin |-> session, status |-> status,
                writes |-> out.writes, threw |-> out.threw]
    /\ prev' = files
    /\ steps' = steps + 1
    /\ UNCHANGED <<now, call, session, conc, formVars>>

(* ------------------------------ admins -------------------------------- *)
AdminEmail == Str(<<"a", "@", "b">>)

\* POST /api/admin/login.  The body is a valid or an invalid one.
Login ==
    \E valid \in BOOLEAN :
        LET admins == DbRead(files, "admins").value
            known == {i \in 1..Len(admins) : StrictEq(Get(admins[i], "email"), AdminEmail)}
            status == IF ~valid THEN 400
                      ELSE IF known = {} THEN 401
                      ELSE IF "verifyPassword" \in NotDefined THEN 500
                      ELSE 200
            admin == admins[CHOOSE i \in known : \A j \in known : i <= j]
        IN  /\ steps < MaxRequests
            /\ session' = IF status = 200 THEN Get(admin, "id") ELSE session
            /\ http' = [route |-> "POST /api/admin/login", table |-> "admins",
                        param |-> <<>>, valid |-> valid, admin |-> session,
                        status |-> status, writes |-> 0, threw |-> FALSE]
            /\ prev' = files
            /\ steps' = steps + 1
            /\ UNCHANGED <<files, now, call, uploads, conc, formVars>>

\* POST /api/admin/logout
Logout ==
    /\ steps < MaxRequests
    /\ session' = Null
    /\ http' = [route |-> "POST /api/admin/logout", table |-> "none", param |-> <<>>,
                valid |-> TRUE, admin |-> session, status |-> 200,
                writes |-> 0, threw |-> FALSE]
    /\ prev' = files
    /\ steps' = steps + 1
    /\ UNCHANGED <<files, now, call, uploads, conc, formVars>>

\* POST /api/admin/create.  The body has all three fields or lacks one.
CreateAdmin ==
    \E valid \in BOOLEAN :
        LET admins == DbRead(files, "admins").value
            exists == \E i \in 1..Len(admins) : StrictEq(Get(admins[i], "email"), AdminEmail)
            defined == "hashPassword" \notin NotDefined
            out == DbInsert(files, "admins",
                            [email |-> AdminEmail, password |-> Str(<<"h">>),
                             full_name |-> Admin, provider |-> Str(<<"e", "m", "a", "i", "l">>)],
                            now)
            status == IF ~valid \/ exists THEN 400
                      ELSE IF ~defined \/ out.threw THEN 500
                      ELSE 200
        IN  /\ steps < MaxRequests
            /\ Respond("POST /api/admin/create", "admins", <<>>, valid, status,
                       IF valid /\ ~exists /\ defined THEN out ELSE Skipped, uploads)

(* ----------------------------- products ------------------------------- *)
\* Bodies of the product requests: a complete one and one without a name.
ProductBodies ==
    { [name |-> Str(<<"A">>), price |-> Str(<<"1", "0">>), category |-> Revamping],
      [price |-> Str(<<"1", "0">>)] }

\* GET /api/products, /api/bookings, /api/services, /api/gallery, /api/videos
\* and /api/profiles: the table as db.read returns it.
GetAll ==
    \E table \in dbFiles \ {"admins"} :
        /\ steps < MaxRequests
        /\ Respond("GET /api/" \o table, table, <<>>, TRUE,
                   IF DbReadCall(files, table).threw THEN 500 ELSE 200, Skipped, uploads)

\* POST /api/products: requireAuth, the validators, then the handler.
PostProduct ==
    \E body \in ProductBodies :
        LET name == Get(body, "name")
            valid == /\ name.type = "string" /\ Len(name.val) \in 1..100
                     /\ ParseFloat(Get(body, "price")).type = "number"
                     /\ Get(body, "category") \in ProductCategories
            out == DbInsert(files, "products",
                            [name |-> name,
                             description |-> OrElse(Get(body, "description"), EmptyString),
                             price |-> ParseFloat(Get(body, "price")),
                             image_url |-> OrElse(Get(body, "image_url"), EmptyString),
                             category |-> Get(body, "category"),
                             in_stock |-> Bool(TRUE)],
                            now)
            status == IF ~RequireAuth(session) THEN 401
                      ELSE IF ~valid THEN 400
                      ELSE IF "sanitizeInput" \in NotDefined \/ out.threw THEN 500
                      ELSE 200
        IN  /\ steps < MaxRequests
            /\ Respond("POST /api/products", "products", <<>>, valid, status,
                       IF RequireAuth(session) /\ valid /\ "sanitizeInput" \notin NotDefined
                       THEN out ELSE Skipped,
                       uploads)

\* PUT /api/products/:id
PutProduct ==
    \E param \in IdParams, body \in ProductBodies :
        LET valid == ~(Falsy(Get(body, "name")) \/ Falsy(Get(body, "price")))
            out == DbUpdate(files, "products", ParseInt(param),
                            [name |-> Get(body, "name"),
                             description |-> OrElse(Get(body, "description"), EmptyString),
                             price |-> ParseFloat(Get(body, "price")),
                             image_url |-> OrElse(Get(body, "image_url"), EmptyString),
                             category |-> OrElse(Get(body, "category"), Wig)],
                            now)
        IN  /\ steps < MaxRequests
            /\ Respond("PUT /api/products/:id", "products", param, valid,
                       IF valid THEN Caught(out) ELSE 400,
                       IF valid THEN out ELSE Skipped, uploads)

\* DELETE /api/<table>/:id, the handler the four delete routes share.
DeleteRoute(route, table) ==
    \E param \in IdParams :
        LET out == DbDelete(files, table, ParseInt(param))
        IN  /\ steps < MaxRequests
            /\ Respond(route, table, param, TRUE, Caught(out), out, uploads)

\* DELETE /api/products/:id
DeleteProduct == DeleteRoute("DELETE /api/products/:id", "products")

(* ----------------------------- bookings ------------------------------- *)
\* Bodies of POST /api/bookings: every field, and a name alone.
BookingBodies ==
    { [customer_name |-> Str(<<"N">>), customer_phone |-> Str(<<"0", "8">>),
       customer_email |-> EmptyString, service_name |-> Styling,
       booking_date |-> Str(<<"d">>), booking_time |-> Str(<<"t">>),
       notes |-> EmptyString],
      [customer_name |-> Str(<<"N">>)] }

\* The handler of POST /api/bookings: no validation, no try/catch.
PostBookingHandler(f, body, clock) ==
    DbInsert(f, "bookings",
             [customer_name |-> Get(body, "customer_name"),
              customer_phone |-> Get(body, "customer_phone"),
              customer_email |-> Get(body, "customer_email"),
              service_name |-> Get(body, "service_name"),
              booking_date |-> Get(body, "booking_date"),
              booking_time |-> Get(body, "booking_time"),
              notes |-> Get(body, "notes"),
              status |-> Pending],
             clock)

\* POST /api/bookings
PostBooking ==
    \E body \in BookingBodies :
        LET out == PostBookingHandler(files, body, now)
        IN  /\ steps < MaxRequests
            /\ Len(DbRead(files, "bookings").value) < MaxLen
            /\ Respond("POST /api/bookings", "bookings", <<>>, TRUE,
                       IF out.threw THEN 500 ELSE 200, out, uploads)

\* PUT /api/bookings/:id: the body carries a status or none.
PutBooking ==
    \E param \in IdParams, status \in {Str(<<"o", "k">>), Undefined} :
        LET out == DbUpdate(files, "bookings", ParseInt(param), [status |-> status], now)
        IN  /\ steps < MaxRequests
            /\ Respond("PUT /api/bookings/:id", "bookings", param, TRUE, Caught(out),
                       out, uploads)

\* DELETE /api/bookings/all
DeleteAllBookings ==
    LET out == DbWriteCall(files, "bookings", <<>>)
    IN  /\ steps < MaxRequests
        /\ Respond("DELETE /api/bookings/all", "bookings", <<>>, TRUE,
                   IF out.threw THEN 500 ELSE 200, out, uploads)

(* ----------------------------- services ------------------------------- *)
\* POST /api/services
PostService ==
    \E priced \in BOOLEAN :
        LET out == DbInsert(files, "services",
                            [name |-> Styling, description |-> Undefined,
                             price |-> IF priced THEN Num(5) ELSE Undefined,
                             duration |-> Undefined],
                            now)
        IN  /\ steps < MaxRequests
            /\ Len(DbRead(files, "services").value) < MaxLen
            /\ Respond("POST /api/services", "services", <<>>, TRUE,
                       IF out.threw THEN 500 ELSE 200, out, uploads)

\* DELETE /api/services/:id
DeleteService == DeleteRoute("DELETE /api/services/:id", "services")

(* ------------------------------ uploads ------------------------------- *)
\* What a request brings for upload.single: no file, a file the fileFilter
\* accepts, or one it rejects (multer then ends the request with an error
\* and the handler does not run).
UploadKinds == {"none", "accepted", "rejected"}

\* The name multer's storage gives the file: Date.now(), a dash and a random
\* number, for which the request's sequence number stands.
UploadName == NumberToString(now) \o <<"-">> \o NumberToString(steps)

\* uploads/ after upload.single has run.
Uploaded(file) == IF file = "accepted" THEN uploads \cup {UploadName} ELSE uploads

\* A handler that leaves the uploaded file out of the record.
UploadUrlForgotten(file, default) == default

\* `/uploads/${req.file.filename}` when there is a file, otherwise the default.
UploadUrl(file, default) ==
    IF file = "accepted" THEN Str(UploadsDir \o UploadName) ELSE default

(* ------------------------------ gallery ------------------------------- *)
\* POST /api/gallery
PostGallery ==
    \E file \in UploadKinds :
        LET out == DbInsert(files, "gallery",
                            [title |-> OrElse(Undefined, UntitledImage),
                             image_url |-> UploadUrl(file, EmptyString),
                             category |-> OrElse(Undefined, Styling)],
                            now)
            ran == file # "rejected"
        IN  /\ steps < MaxRequests
            /\ Len(DbRead(files, "gallery").value) < MaxLen
            /\ Respond("POST /api/gallery", "gallery", <<>>, ran,
                       IF ran /\ ~out.threw THEN 200 ELSE 500,
                       IF ran THEN out ELSE Skipped, Uploaded(file))

\* DELETE /api/gallery/:id
DeleteGallery == DeleteRoute("DELETE /api/gallery/:id", "gallery")

(* ------------------------------- videos ------------------------------- *)
\* POST /api/videos
PostVideo ==
    \E file \in UploadKinds :
        LET out == DbInsert(files, "videos",
                            [title |-> OrElse(Undefined, UntitledVideo),
                             video_url |-> UploadUrl(file, EmptyString),
                             thumbnail_url |-> EmptyString,
                             description |-> OrElse(Undefined, EmptyString)],
                            now)
            ran == file # "rejected"
        IN  /\ steps < MaxRequests
            /\ Len(DbRead(files, "videos").value) < MaxLen
            /\ Respond("POST /api/videos", "videos", <<>>, ran,
                       IF ran /\ ~out.threw THEN 200 ELSE 500,
                       IF ran THEN out ELSE Skipped, Uploaded(file))

\* PUT /api/videos/:id: the body carries a title or none.
PutVideo ==
    \E param \in IdParams, file \in UploadKinds, title \in {Str(<<"V">>), Undefined} :
        LET found == DbFindById(files, "videos", ParseInt(param))
            existingVideo == found.ret.val
            out == DbUpdate(files, "videos", ParseInt(param),
                            [title |-> OrElse(title, Get(existingVideo, "title")),
                             description |-> OrElse(Undefined, Get(existingVideo, "description")),
                             video_url |-> UploadUrl(file, Get(existingVideo, "video_url"))],
                            now)
            ran == file # "rejected"
            missing == StatusOf(found.ret) = 404
            status == IF ~ran \/ found.threw THEN 500
                      ELSE IF missing THEN 404
                      ELSE IF out.threw THEN 500
                      ELSE 200
        IN  /\ steps < MaxRequests
            /\ Respond("PUT /api/videos/:id", "videos", param, ran, status,
                       IF ran /\ ~missing THEN out ELSE Skipped, Uploaded(file))

\* DELETE /api/videos/:id
DeleteVideo == DeleteRoute("DELETE /api/videos/:id", "videos")

(* ------------------------------ profiles ------------------------------ *)
\* GET /api/profile/:id
GetProfile ==
    \E param \in IdParams :
        LET out == DbFindById(files, "profiles", ParseInt(param))
        IN  /\ steps < MaxRequests
            /\ Respond("GET /api/profile/:id", "profiles", param, TRUE, Caught(out),
                       out, uploads)

\* POST /api/profile: the body carries a userId or none, deletePhoto or not;
\* a photo comes with the request or not.  The response record keeps the
\* userId of the body in param (empty when the body has none).
PostProfile ==
    \E userId \in {Str(<<"u">>), Str(<<"v">>), Undefined}, file \in UploadKinds,
       deletePhoto \in {True, Undefined} :
        LET profiles == DbRead(files, "profiles").value
            same == {i \in 1..Len(profiles) : StrictEq(Get(profiles[i], "userId"), userId)}
            existingProfile == profiles[CHOOSE i \in same : \A j \in same : i <= j]
            photo_url == UploadUrl(file, EmptyString)
            updated == DbUpdate(files, "profiles", Get(existingProfile, "id"),
                                [name |-> OrElse(Undefined, Get(existingProfile, "name")),
                                 email |-> OrElse(Undefined, Get(existingProfile, "email")),
                                 phone |-> OrElse(Undefined, Get(existingProfile, "phone")),
                                 bio |-> OrElse(Undefined, Get(existingProfile, "bio")),
                                 photo_url |->
                                     IF StrictEq(deletePhoto, True) THEN EmptyString
                                     ELSE OrElse(photo_url, Get(existingProfile, "photo_url"))],
                                now)
            created == DbInsert(files, "profiles",
                                [userId |-> userId,
                                 name |-> OrElse(Undefined, Admin),
                                 email |-> OrElse(Undefined, AdminExampleCom),
                                 phone |-> OrElse(Undefined, EmptyString),
                                 bio |-> OrElse(Undefined, EmptyString),
                                 photo_url |->
                                     IF StrictEq(deletePhoto, True) THEN EmptyString
                                     ELSE photo_url],
                                now)
            out == IF same # {} THEN updated ELSE created
            ran == file # "rejected"
        IN  /\ steps < MaxRequests
            /\ same = {} => Len(profiles) < MaxLen
            /\ Respond("POST /api/profile", "profiles",
                       IF userId = Undefined THEN <<>> ELSE userId.val, ran,
                       IF ran /\ ~out.threw THEN 200 ELSE 500,
                       IF ran THEN out ELSE Skipped, Uploaded(file))

\* DELETE /api/profile/:id/photo
DeleteProfilePhoto ==
    \E param \in IdParams :
        LET found == DbFindById(files, "profiles", ParseInt(param))
            out == DbUpdate(files, "profiles", ParseInt(param),
                            [photo_url |-> EmptyString], now)
            missing == StatusOf(found.ret) = 404
            status == IF found.threw THEN 500
                      ELSE IF missing THEN 404
                      ELSE IF out.threw THEN 500
                      ELSE 200
        IN  /\ steps < MaxRequests
            /\ Respond("DELETE /api/profile/:id/photo", "profiles", param, TRUE, status,
                       IF missing THEN Skipped ELSE out, uploads)

(* ------------------------- the specification -------------------------- *)
\* The server starts on a fresh data directory.
InitRoutes == InitWith(InitFiles)

NextRoutes ==
    \/ Tick
    \/ Login
    \/ Logout
    \/ CreateAdmin
    \/ GetAll
    \/ PostProduct
    \/ PutProduct
    \/ DeleteProduct
    \/ PostBooking
    \/ PutBooking
    \/ DeleteAllBookings
    \/ PostService
    \/ DeleteService
    \/ PostGallery
    \/ DeleteGallery
    \/ PostVideo
    \/ PutVideo
    \/ DeleteVideo
    \/ GetProfile
    \/ PostProfile
    \/ DeleteProfilePhoto

SpecRoutes == InitRoutes /\ [][NextRoutes]_vars

(***************************************************************************)
(* Properties of the record store, checked under SpecStore.                *)
(***************************************************************************)
\* The table of the last call as db.read returned it before and after.
Before == DbRead(prev, call.table).value

After == DbRead(files, call.table).value

\* The indices of the records whose id loosely equals id.
Matches(data, id) == {i \in 1..Len(data) : LooseEq(Get(data[i], "id"), id)}

\* C1: after insert(table, r), read(table) is the table as it was followed by
\* one more element; that element has every field of r (other than the two
\* the store sets) with r's value, it equals field by field the object the
\* caller holds after the call, and its id and created_at are the clock's.
C1_InsertRoundTrip ==
    call.op = "insert" =>
        LET last == After[Len(After)]
        IN  /\ ~call.threw
            /\ Len(After) = Len(Before) + 1
            /\ SubSeq(After, 1, Len(Before)) = Before
            /\ \A k \in (DOMAIN call.arg) \ {"id", "created_at"} :
                   Get(last, k) = Get(call.arg, k)
            /\ call.ret.type = "object"
            /\ \A k \in DOMAIN call.ret.val : Get(last, k) = Get(call.ret.val, k)
            /\ Get(last, "id") = Num(call.clock)
            /\ Get(last, "created_at") = ISOString(call.clock)

\* An insert of a record that carries an undefined field and an id of its
\* own, into a table that already holds a record.
C1_Witness ==
    /\ call.op = "insert"
    /\ Len(Before) >= 1
    /\ \E k \in DOMAIN call.arg : call.arg[k] = Undefined

\* C2: update(table, id, partialFields) on an id present exactly once returns
\* and persists a record with the new value of every field partialFields
\* names and the old value of every other field, updated_at being the current
\* timestamp; the other records and the length of the table stay.
C2_UpdateMerge ==
    (call.op = "update" /\ Cardinality(Matches(Before, call.id)) = 1) =>
        LET i == CHOOSE j \in Matches(Before, call.id) : TRUE
            old == Before[i]
            new == After[i]
            named == (DOMAIN call.arg) \ {"updated_at"}
        IN  /\ ~call.threw
            /\ call.writes = 1
            /\ call.ret.type = "object"
            /\ Len(After) = Len(Before)
            /\ \A j \in 1..Len(Before) : j # i => After[j] = Before[j]
            /\ \A k \in named :
                   /\ Get(new, k) = Get(call.arg, k)
                   /\ Get(call.ret.val, k) = Get(call.arg, k)
            /\ \A k \in (DOMAIN old) \ (named \cup {"updated_at"}) :
                   /\ Get(new, k) = Get(old, k)
                   /\ Get(call.ret.val, k) = Get(old, k)
            /\ Get(new, "updated_at") = ISOString(call.clock)
            /\ Get(call.ret.val, "updated_at") = ISOString(call.clock)

\* An update of one of two records that leaves some field of it alone.
C2_Witness ==
    /\ call.op = "update"
    /\ Cardinality(Matches(Before, call.id)) = 1
    /\ Len(Before) = 2
    /\ \E i \in Matches(Before, call.id) : (DOMAIN Before[i]) \ (DOMAIN call.arg) # {}

\* C3: delete of an id present exactly once returns true and removes that
\* record and no other; delete of an id no record has returns false, writes
\* nothing and leaves every table as it was.
C3_DeleteExactlyOne ==
    call.op = "delete" =>
        /\ Cardinality(Matches(Before, call.id)) = 1 =>
               LET i == CHOOSE j \in Matches(Before, call.id) : TRUE
               IN  /\ call.ret = Bool(TRUE)
                   /\ Len(After) = Len(Before) - 1
                   /\ After = Splice(Before, i)
        /\ Matches(Before, call.id) = {} =>
               /\ call.ret = Bool(FALSE)
               /\ call.writes = 0
               /\ files = prev

\* A delete of an id that no record of a non-empty table has.
C3_Witness ==
    /\ call.op = "delete"
    /\ Len(Before) >= 1
    /\ Matches(Before, call.id) = {}
    /\ call.id.type = "number"

\* The same call as the last one, made on the same files at the same time
\* with id in place of the id it was given.
SameCallWith(id) ==
    CASE call.op = "findById" -> DbFindById(prev, call.table, id)
      [] call.op = "update" -> DbUpdate(prev, call.table, id, call.arg, call.clock)
      [] call.op = "delete" -> DbDelete(prev, call.table, id)

\* C4: findById, update and delete called with the numeric id n of a record
\* find that record, and a call with n and the same call with the decimal
\* string of n return the same value and leave the same files.
C4_IdLooseEquality ==
    /\ (call.op \in {"findById", "update", "delete"} /\ call.id.type = "number") =>
           LET s == Str(NumberToString(call.id.val))
               hit == \E i \in 1..Len(Before) : Get(Before[i], "id") = call.id
           IN  /\ SameCallWith(s).ret = call.ret
               /\ SameCallWith(s).files = files
               /\ SameCallWith(s).writes = call.writes
               /\ hit => call.ret \notin {Undefined, Null, Bool(FALSE)}
    /\ (call.op \in {"findById", "update", "delete"} /\ call.id.type = "string"
            /\ StringToNumber(call.id.val).type = "number") =>
           LET n == StringToNumber(call.id.val)
               hit == \E i \in 1..Len(Before) : Get(Before[i], "id") = n
           IN  /\ SameCallWith(n).ret = call.ret
               /\ SameCallWith(n).files = files
               /\ SameCallWith(n).writes = call.writes
               /\ hit => call.ret \notin {Undefined, Null, Bool(FALSE)}

\* An update called with the decimal string of the numeric id of the second
\* of two records.
C4_Witness ==
    /\ call.op = "update"
    /\ call.id.type = "string"
    /\ Len(Before) = 2
    /\ Get(Before[2], "id") = StringToNumber(call.id.val)
    /\ Get(Before[1], "id") # StringToNumber(call.id.val)
    /\ After[2] # Before[2]

\* C8: findById and update called with an id that no record of the table has
\* return undefined and null, throw nothing, write nothing and leave every
\* table as it was.
C8_NotFoundIsAbsentValue ==
    (call.op \in {"findById", "update"} /\ Matches(Before, call.id) = {}) =>
        /\ ~call.threw
        /\ call.ret = (IF call.op = "findById" THEN Undefined ELSE Null)
        /\ call.writes = 0
        /\ files = prev

\* An update with an id that no record of a non-empty table has.
C8_Witness ==
    /\ call.op = "update"
    /\ Len(Before) >= 1
    /\ Matches(Before, call.id) = {}

(***************************************************************************)
(* Properties of the store over a failing disk, checked under SpecFault.   *)
(***************************************************************************)
\* C7: when the table's file is missing or does not parse, read returns the
\* empty array, findById undefined, update null and delete false; none of
\* them throws, writes, or changes a file.
C7_ReadFailureIsEmptyTable ==
    (call.op \in {"read", "findById", "update", "delete"}
        /\ prev[call.table].kind # "array") =>
        /\ ~call.threw
        /\ call.ret = CASE call.op = "read" -> Arr(<<>>)
                        [] call.op = "findById" -> Undefined
                        [] call.op = "update" -> Null
                        [] call.op = "delete" -> Bool(FALSE)
        /\ call.writes = 0
        /\ files = prev

\* An update on a table whose file does not parse, while the other table
\* holds a record.
C7_Witness ==
    /\ call.op = "update"
    /\ prev[call.table].kind = "garbage"
    /\ \E t \in StoreTables : Len(DbRead(files, t).value) >= 1

(***************************************************************************)
(* The routes on a data directory that earlier runs have filled, and on a  *)
(* disk that may stop taking writes (a full disk, a file system remounted  *)
(* read-only): from then on fs.writeJsonSync throws.                       *)
(***************************************************************************)
\* The record each table holds when the server starts.
StoredIn(table) ==
    CASE table = "services" ->
             [id |-> Num(1), created_at |-> ISOString(1), name |-> Styling]
      [] table = "bookings" ->
             [id |-> Num(1), created_at |-> ISOString(1), customer_name |-> Str(<<"N">>),
              service_name |-> Styling, status |-> Pending]
      [] table = "profiles" ->
             [id |-> Num(1), created_at |-> ISOString(1), userId |-> Str(<<"u">>),
              name |-> Admin, photo_url |-> EmptyString]
      [] table = "videos" ->
             [id |-> Num(1), created_at |-> ISOString(1), title |-> UntitledVideo,
              video_url |-> EmptyString]
      [] OTHER -> StoredRecord

UsedDirectory ==
    [t \in dbFiles |-> IF t = "admins" THEN ArrayFile(<<>>) ELSE ArrayFile(<<StoredIn(t)>>)]

\* The disk stops taking writes.
DiskFails ==
    /\ steps < MaxRequests
    /\ \E t \in dbFiles : files[t].kind = "array"
    /\ files' = [t \in dbFiles |-> IF files[t].kind = "array"
                                    THEN ReadOnlyFile(files[t].data) ELSE files[t]]
    /\ http' = NoRequest
    /\ prev' = files
    /\ steps' = steps + 1
    /\ UNCHANGED <<now, call, session, uploads, conc, formVars>>

InitDisk == InitWith(UsedDirectory)

NextDisk == NextRoutes \/ DiskFails

SpecDisk == InitDisk /\ [][NextDisk]_vars

(***************************************************************************)
(* Overlapping store calls.  Two clients call db.insert and db.update on   *)
(* the bookings table; a call arrives, reads the table and changes its     *)
(* copy, then writes the copy back and returns.  db.read, the change and   *)
(* db.write are consecutive statements of one synchronous function, and    *)
(* Node runs one function at a time to its end.                            *)
(***************************************************************************)
ConcTable == "bookings"

\* What each client inserts and the fields each client updates.
ConcRecord(c) ==
    IF c = "a" THEN [customer_name |-> Str(<<"A">>), status |-> Pending]
    ELSE [customer_name |-> Str(<<"B">>), status |-> Pending]

ConcUpdates(c) ==
    IF c = "a" THEN [status |-> Str(<<"o", "k">>)]
    ELSE [notes |-> Str(<<"n">>)]

\* A scheduler that lets a call start between another call's read and write.
MayStartAnytime(c) == TRUE

\* A call's statements start when no other call is between its read and its
\* write: db.insert and db.update hold no await and no callback.
MayStart(c) == \A d \in Clients \ {c} : conc[d].pc # "modified"

\* Is another client's call under way?
Overlaps(c) == \E d \in Clients \ {c} : conc[d].pc \in {"called", "modified"}

\* A client calls db.insert or db.update: the call is queued.
Begin(c) ==
    \E op \in {"insert", "update"}, id \in {Num(n) : n \in 1..MaxClock} :
        /\ steps < MaxCalls
        /\ conc[c].pc \in {"idle", "returned"}
        /\ conc' = [d \in Clients |->
                       IF d = c
                       THEN [Idle EXCEPT !.pc = "called", !.op = op,
                                         !.id = IF op = "update" THEN id ELSE Undefined,
                                         !.arg = IF op = "update" THEN ConcUpdates(c)
                                                 ELSE ConcRecord(c),
                                         !.overlap = Overlaps(c)]
                       ELSE [conc[d] EXCEPT !.overlap =
                                 @ \/ conc[d].pc \in {"called", "modified"}]]
        /\ steps' = steps + 1
        /\ UNCHANGED <<files, now, call, prev, webVars, formVars>>

\* The call reads the table and changes its copy: const data = db.read(table)
\* up to the statement before db.write.  An update that finds no record
\* returns null here.
ReadModify(c) ==
    LET out == IF conc[c].op = "insert"
               THEN DbInsert(files, ConcTable, conc[c].arg, now)
               ELSE DbUpdate(files, ConcTable, conc[c].id, conc[c].arg, now)
    IN  /\ conc[c].pc = "called"
        /\ MayStart(c)
        /\ conc' = [conc EXCEPT ![c].pc = IF out.writes = 0 THEN "returned" ELSE "modified",
                                ![c].data = DbRead(out.files, ConcTable).value,
                                ![c].ret = out.ret]
        /\ UNCHANGED <<files, now, call, prev, steps, webVars, formVars>>

\* The call writes its copy back and returns: db.write(table, data).
WriteBack(c) ==
    /\ conc[c].pc = "modified"
    /\ files' = DbWrite(files, ConcTable, conc[c].data)
    /\ prev' = files
    /\ conc' = [conc EXCEPT ![c].pc = "returned"]
    /\ UNCHANGED <<now, call, steps, webVars, formVars>>

InitConc == InitWith(InitFiles)

RunConc == \E c \in Clients : ReadModify(c) \/ WriteBack(c)

NextConc == Tick \/ (\E c \in Clients : Begin(c)) \/ RunConc

\* A call that was made runs: the event loop leaves no queued function
\* unexecuted.
SpecConc == InitConc /\ [][NextConc]_vars /\ WF_vars(RunConc)

(***************************************************************************)
(* The booking page.  The customer fills the form in and presses the       *)
(* button; the page sends the booking to the server and, five seconds      *)
(* later, leaves for WhatsApp.  Strings of the page are sequences of       *)
(* characters.                                                             *)
(***************************************************************************)
MaxSubmits == 2

\* String.prototype.trim
Trim(s) == TrimRight(TrimLeft(s))

\* The fields validateAndBookWhatsApp requires.
RequiredFields == {"name", "phone", "service", "date", "time"}

\* Forms the customer types: complete with and without notes and with
\* blanks around the name, a name of blanks only, and one required field
\* left empty.  The form as loaded and as cleared is EmptyForm.
CompleteForm ==
    [name |-> <<" ", "A">>, phone |-> <<"0", "8">>, service |-> Styling.val,
     date |-> <<"d">>, time |-> <<"t">>, notes |-> <<>>]

FormInputs ==
    {CompleteForm,
     [CompleteForm EXCEPT !.name = <<"A">>, !.notes = <<"n", " ">>],
     [CompleteForm EXCEPT !.name = <<" ">>]}
        \cup {[CompleteForm EXCEPT ![f] = <<>>] : f \in RequiredFields}

\* A validation that requires the name alone.
MissingNameOnly(bookingData) == {f \in {"name"} : bookingData[f] = <<>>}

\* The required fields whose value is the empty string: the five tests
\* if (!name) ... if (!time), each marking its field.
Missing(bookingData) == {f \in RequiredFields : bookingData[f] = <<>>}

\* The body saveBookingToAdmin sends to POST /api/bookings.
BookingRequest(bookingData) ==
    [customer_name |-> Str(bookingData.name),
     customer_phone |-> Str(bookingData.phone),
     customer_email |-> EmptyString,
     service_name |-> Str(bookingData.service),
     booking_date |-> Str(bookingData.date),
     booking_time |-> Str(bookingData.time),
     notes |-> Str(bookingData.notes)]

\* The WhatsApp message: a line for each required field and, when there are
\* notes, a line for the notes.
Message(bookingData) ==
    <<<<"Name", bookingData.name>>, <<"Phone", bookingData.phone>>,
      <<"Service", bookingData.service>>, <<"Date", bookingData.date>>,
      <<"Time", bookingData.time>>>>
        \o (IF bookingData.notes # <<>> THEN <<<<"Notes", bookingData.notes>>>> ELSE <<>>)

\* The address the page leaves for; encodeURIComponent keeps distinct
\* messages distinct.
WhatsappUrl(message) == [host |-> "wa.me/2348167559196", text |-> message]

\* The customer types into the form.
FillIn ==
    \E form \in FormInputs :
        /\ page.location = BookingPage
        /\ page.form # form
        /\ page' = [page EXCEPT !.form = form]
        /\ UNCHANGED <<files, now, call, prev, steps, webVars, conc, net>>

\* validateAndBookWhatsApp, the handler of the button.
ValidateAndBookWhatsApp ==
    LET bookingData == [name |-> Trim(page.form.name),
                        phone |-> Trim(page.form.phone),
                        service |-> page.form.service,
                        date |-> page.form.date,
                        time |-> page.form.time,
                        notes |-> Trim(page.form.notes)]
        hasError == Missing(bookingData) # {}
    IN  /\ page.location = BookingPage
        /\ steps < MaxSubmits
        /\ IF hasError
           THEN /\ page' = [page EXCEPT !.marked = Missing(bookingData),
                                        !.toast = "error"]
                /\ net' = net
           ELSE /\ page' = [page EXCEPT
                                !.marked = {},
                                !.toast = "success",
                                !.form = EmptyForm,
                                !.timers = Append(@, WhatsappUrl(Message(bookingData)))]
                /\ net' = Append(net, [body |-> BookingRequest(bookingData),
                                       state |-> "sent"])
        /\ call' = [NoCall EXCEPT !.op = "submit", !.arg = page.form, !.clock = steps + 1]
        /\ prev' = files
        /\ steps' = steps + 1
        /\ UNCHANGED <<files, now, webVars, conc>>

\* A booking the page sent reaches the server, whose handler of
\* POST /api/bookings stores it; the page logs the answer.
Deliver ==
    \E i \in 1..Len(net) :
        /\ net[i].state = "sent"
        /\ files' = PostBookingHandler(files, net[i].body, now).files
        /\ net' = [net EXCEPT ![i].state = "saved"]
        /\ UNCHANGED <<now, call, prev, steps, webVars, conc, page>>

\* A booking the page sent does not reach the server: fetch rejects and the
\* page logs the error.
FetchFails ==
    \E i \in 1..Len(net) :
        /\ net[i].state = "sent"
        /\ net' = [net EXCEPT ![i].state = "failed"]
        /\ UNCHANGED <<files, now, call, prev, steps, webVars, conc, page>>

\* The five seconds of the earliest pending timer are over: the page leaves
\* for WhatsApp, and the timers of the page go with it.
TimerFires ==
    /\ page.location = BookingPage
    /\ page.timers # <<>>
    /\ page' = [page EXCEPT !.location = Head(page.timers), !.timers = <<>>]
    /\ UNCHANGED <<files, now, call, prev, steps, webVars, conc, net>>

InitForm == InitWith(InitFiles)

NextForm == FillIn \/ ValidateAndBookWhatsApp \/ Deliver \/ FetchFails \/ TimerFires

\* A timer that was set fires, and a fetch that was started settles.
SpecForm ==
    InitForm /\ [][NextForm]_vars /\ WF_vars(TimerFires) /\ WF_vars(Deliver \/ FetchFails)

(***************************************************************************)
(* Properties of the routes, checked under SpecRoutes.                     *)
(***************************************************************************)
\* The tables whose records only an admin is to create, change or remove.
AdminTables == {"products", "services", "gallery", "videos", "profiles"}

\* The routes that address a record by :id.
IdRoutes ==
    {"PUT /api/products/:id", "DELETE /api/products/:id", "PUT /api/bookings/:id",
     "DELETE /api/services/:id", "DELETE /api/gallery/:id", "PUT /api/videos/:id",
     "DELETE /api/videos/:id", "GET /api/profile/:id", "DELETE /api/profile/:id/photo"}

\* The table of the last request before and after it.
TableBefore == DbRead(prev, http.table).value

TableAfter == DbRead(files, http.table).value

\* C6: a request without an authenticated admin session leaves products,
\* services, gallery, videos and profiles as they were, and leaves bookings
\* as they were unless it is the booking form's POST, which appends one.
C6_WritesNeedAdminSession ==
    (http.route # "none" /\ ~RequireAuth(http.admin)) =>
        /\ \A t \in AdminTables : files[t] = prev[t]
        /\ \/ files["bookings"] = prev["bookings"]
           \/ /\ http.route = "POST /api/bookings"
              /\ Len(TableAfter) = Len(TableBefore) + 1
              /\ SubSeq(TableAfter, 1, Len(TableBefore)) = TableBefore

Succeeded(c) == conc[c].pc = "returned" /\ conc[c].ret.type = "object"

\* The table holds what the call of client c changed: the record it
\* inserted, or the fields it gave to update on the record it named.
ChangePresent(c) ==
    LET data == DbRead(files, ConcTable).value
    IN  IF conc[c].op = "insert"
        THEN \E i \in 1..Len(data) :
                 /\ Get(data[i], "id") = Get(conc[c].ret.val, "id")
                 /\ Get(data[i], "customer_name") = Get(conc[c].arg, "customer_name")
        ELSE \E i \in 1..Len(data) :
                 /\ LooseEq(Get(data[i], "id"), conc[c].id)
                 /\ \A k \in DOMAIN conc[c].arg : Get(data[i], k) = conc[c].arg[k]

\* Two calls that overlapped have both returned successfully and the table
\* lacks the change of one of them.
LostUpdate ==
    /\ \A c \in Clients : Succeeded(c) /\ conc[c].overlap
    /\ \E c \in Clients : ~ChangePresent(c)

AllFilled(form) == \A f \in RequiredFields : form[f] # <<>>

\* They are non-empty once the blanks around name and phone are removed.
AllFilledTrimmed(form) ==
    AllFilled(form) /\ Trim(form.name) # <<>> /\ Trim(form.phone) # <<>>

\* A record of the bookings table carries a form's fields, with the blanks
\* around name, phone and notes removed, and status 'pending'.
Carries(record, form) ==
    /\ Get(record, "customer_name") = Str(Trim(form.name))
    /\ Get(record, "customer_phone") = Str(Trim(form.phone))
    /\ Get(record, "service_name") = Str(form.service)
    /\ Get(record, "booking_date") = Str(form.date)
    /\ Get(record, "booking_time") = Str(form.time)
    /\ Get(record, "notes") = Str(Trim(form.notes))
    /\ Get(record, "status") = Pending

Bookings == DbRead(files, "bookings").value

\* The request and the address a form gives rise to.
RequestOf(form) ==
    [customer_name |-> Str(Trim(form.name)), customer_phone |-> Str(Trim(form.phone)),
     customer_email |-> EmptyString, service_name |-> Str(form.service),
     booking_date |-> Str(form.date), booking_time |-> Str(form.time),
     notes |-> Str(Trim(form.notes))]

AddressOf(form) ==
    [host |-> "wa.me/2348167559196",
     text |-> <<<<"Name", Trim(form.name)>>, <<"Phone", Trim(form.phone)>>,
                <<"Service", form.service>>, <<"Date", form.date>>,
                <<"Time", form.time>>>>
              \o (IF Trim(form.notes) = <<>> THEN <<>>
                  ELSE <<<<"Notes", Trim(form.notes)>>>>)]

\* The last submission was of a form with the five fields non-empty.
SubmittedFilled == call.op = "submit" /\ AllFilled(call.arg)

\* The last submission is persisted and the customer is at its address.
PersistedAndRedirected ==
    /\ call.op = "submit"
    /\ \E i \in 1..Len(Bookings) : Carries(Bookings[i], call.arg)
    /\ page.location = AddressOf(call.arg)

SubmitStep ==
    steps' # steps =>
        IF AllFilledTrimmed(page.form)
        THEN /\ net' = Append(net, [body |-> RequestOf(page.form), state |-> "sent"])
             /\ page'.timers = Append(page.timers, AddressOf(page.form))
        ELSE /\ net' = net
             /\ page'.timers = page.timers

\* The table changes only by a sent request reaching the server, which
\* appends the record of that request with status 'pending'.
PersistStep ==
    files' # files =>
        \E i \in 1..Len(net) :
            /\ net[i].state = "sent"
            /\ net' = [net EXCEPT ![i].state = "saved"]
            /\ Len(Bookings') = Len(Bookings) + 1
            /\ SubSeq(Bookings', 1, Len(Bookings)) = Bookings
            /\ \A k \in DOMAIN net[i].body :
                   Get(Bookings'[Len(Bookings')], k) = net[i].body[k]
            /\ Get(Bookings'[Len(Bookings')], "status") = Pending

\* The page leaves only for the address of the earliest pending redirect.
RedirectStep ==
    page'.location # page.location =>
        (page.timers # <<>> /\ page'.location = Head(page.timers))

C11_InitKeepsExistingTables ==
    call.op = "init" =>
        /\ \A t \in dbFiles : prev[t].kind # "missing" => files[t] = prev[t]
        /\ \A t \in dbFiles : DbRead(files, t).value = DbRead(prev, t).value
        /\ Initialise(files) = files

\* The initialisation has run on a directory with a populated table, and not
\* for the first time.
C11_Witness ==
    /\ call.op = "init"
    /\ steps > 1
    /\ \E t \in dbFiles : Len(DbRead(prev, t).value) > 0 /\ files[t] = prev[t]

\* C12: after initialisation of a fresh directory each of the seven tables
\* admins, products, services, bookings, gallery, videos and profiles has
\* its file, holding [], and read(table) returns the empty sequence.
C12_FreshInitReadsEmpty ==
    (call.op = "init" /\ prev = FreshDirectory) =>
        /\ dbFiles = {"admins", "products", "services", "bookings", "gallery",
                      "videos", "profiles"}
        /\ \A t \in dbFiles :
               /\ files[t] = ArrayFile(<<>>)
               /\ ~ReadJsonSync(files, t).threw
               /\ DbReadCall(files, t).ret = Arr(<<>>)

\* The initialisation has run on a directory without table files.
C12_Witness ==
    /\ call.op = "init"
    /\ prev = FreshDirectory
    /\ files # prev

(***************************************************************************)
(* Ids of the store, checked under SpecStore.                              *)
(***************************************************************************)
\* The records of a table whose id is strictly the number n.
WithId(data, n) == {i \in 1..Len(data) : Get(data[i], "id") = Num(n)}

\* C13: insert gives the new record the clock's value as id whatever id the
\* input carries and whatever ids the table holds: the call does not throw,
\* returns the record, appends it after the records there were, and when a
\* record already had that id the table then holds one more with it.
C13_InsertIdIsClock ==
    call.op = "insert" =>
        /\ ~call.threw
        /\ call.ret.type = "object"
        /\ Get(call.ret.val, "id") = Num(call.clock)
        /\ Len(After) = Len(Before) + 1
        /\ SubSeq(After, 1, Len(Before)) = Before
        /\ Get(After[Len(After)], "id") = Num(call.clock)
        /\ Cardinality(WithId(After, call.clock)) =
               Cardinality(WithId(Before, call.clock)) + 1

\* An insert of a record that carries another id, at a clock value that is
\* the id of a record of the table: two records have that id now.
C13_Witness ==
    /\ call.op = "insert"
    /\ "id" \in DOMAIN call.arg
    /\ call.arg.id # Num(call.clock)
    /\ WithId(Before, call.clock) # {}
    /\ Cardinality(WithId(After, call.clock)) = 2

\* The lowest index among the records the last call's id matches.
FirstMatch == CHOOSE i \in Matches(Before, call.id) : \A j \in Matches(Before, call.id) : i <= j

\* C14: when several records of the table have the id of the call, findById
\* returns the one with the lowest index and changes nothing; update changes
\* that one alone, every other record keeping its value and index; delete
\* removes that one alone, the rest keeping their value and order.
C14_FirstOfDuplicates ==
    (call.op \in {"findById", "update", "delete"}
        /\ Cardinality(Matches(Before, call.id)) >= 2) =>
        /\ call.op = "findById" =>
               /\ call.ret = Obj(Before[FirstMatch])
               /\ files = prev
        /\ call.op = "update" =>
               /\ Len(After) = Len(Before)
               /\ \A j \in 1..Len(Before) : j # FirstMatch => After[j] = Before[j]
               /\ Get(After[FirstMatch], "updated_at") = ISOString(call.clock)
               /\ \A k \in DOMAIN call.arg :
                      call.arg[k] # Undefined => Get(After[FirstMatch], k) = call.arg[k]
        /\ call.op = "delete" =>
               /\ call.ret = Bool(TRUE)
               /\ Len(After) = Len(Before) - 1
               /\ \A j \in 1..Len(After) :
                      After[j] = IF j < FirstMatch THEN Before[j] ELSE Before[j + 1]

\* A delete by an id that two different records have: the second is left.
C14_Witness ==
    /\ call.op = "delete"
    /\ Cardinality(Matches(Before, call.id)) = 2
    /\ Len(After) = 1
    /\ After[1] = Before[2]
    /\ Before[1] # Before[2]

\* The ids of a table do not decrease along the array.
NonDecreasing(data) ==
    \A i, j \in 1..Len(data) :
        i < j => Get(data[i], "id").val <= Get(data[j], "id").val

\* No id of a table is a later clock value than clock.
NotAfter(data, clock) == \A i \in 1..Len(data) : Get(data[i], "id").val <= clock

\* C18 as stated: after any insert, update and delete calls the ids of a
\* table are non-decreasing along the array.
C18_IdsNonDecreasing ==
    \A table \in StoreTables : NonDecreasing(DbRead(files, table).value)

\* C18 as amended: insert adds its record at the end, update keeps every
\* record at its index, delete takes one record out and keeps the order of
\* the rest; and a call on a table whose ids are non-decreasing along the
\* array and none later than the clock leaves them so, unless it is an
\* update whose fields carry an id.
C18_AppendOrdered ==
    (call.op \in {"insert", "update", "delete"} /\ ~call.threw) =>
        /\ call.op = "insert" =>
               /\ Len(After) = Len(Before) + 1
               /\ \A i \in 1..Len(Before) : After[i] = Before[i]
               /\ After[Len(After)] = JsonObject(call.ret.val)
        /\ call.op = "update" =>
               /\ Len(After) = Len(Before)
               /\ \A i \in 1..Len(Before) :
                      \/ After[i] = Before[i]
                      \/ /\ call.writes = 1
                         /\ i = FirstMatch
                         /\ After[i] = JsonObject(call.ret.val)
        /\ call.op = "delete" =>
               \/ call.writes = 0 /\ After = Before
               \/ \E i \in 1..Len(Before) :
                      After = SubSeq(Before, 1, i - 1) \o SubSeq(Before, i + 1, Len(Before))
        /\ (NonDecreasing(Before) /\ NotAfter(Before, call.clock)
               /\ ~(call.op = "update" /\ "id" \in DOMAIN call.arg)) =>
               (NonDecreasing(After) /\ NotAfter(After, call.clock))

\* An update without an id among its fields has changed the first of two
\* records with different ids.
C18_Witness ==
    /\ call.op = "update"
    /\ call.writes = 1
    /\ "id" \notin DOMAIN call.arg
    /\ Len(After) = 2
    /\ After[1] # Before[1]
    /\ Get(After[1], "id").val < Get(After[2], "id").val

(***************************************************************************)
(* Properties of the routes on a failing disk, checked under SpecDisk.     *)
(***************************************************************************)
\* C15: when the db.write of a request's insert, update, delete or write
\* meets a disk that takes no writes, the store call throws to the handler,
\* one write was attempted, the response is 500 and the files are as they
\* were; and no request whose store call threw is answered with success.
C15_WriteFailureIs500 ==
    http.route # "none" =>
        /\ (http.writes >= 1 /\ prev[http.table].kind = "readonly") =>
               /\ http.threw
               /\ http.writes = 1
               /\ http.status = 500
               /\ files = prev
        /\ http.threw => http.status = 500

\* A booking was posted to a disk that takes no writes: the handler, which
\* has no try/catch, did not answer; the request ended in a 500.
C15_Witness ==
    /\ http.route = "POST /api/bookings"
    /\ http.threw
    /\ http.writes = 1
    /\ http.status = 500

\* The routes that take an upload.
UploadRoutes ==
    {"POST /api/gallery", "POST /api/videos", "PUT /api/videos/:id", "POST /api/profile"}

\* The name of the file the last request uploaded, if it uploaded one.
ThisUpload == NumberToString(now) \o <<"-">> \o NumberToString(steps - 1)

\* Some record of some table holds the url of the uploaded file f.
Referenced(f) ==
    \E t \in dbFiles :
        \E i \in 1..Len(DbRead(files, t).value) :
            \E k \in DOMAIN DbRead(files, t).value[i] :
                DbRead(files, t).value[i][k] = Str(UploadsDir \o f)

\* The file of the last request is in uploads/ whatever the answer was: no
\* record holds its url when the store call failed or found nothing, and a
\* record does when the answer is 200 (POST /api/profile with deletePhoto
\* set stores no url even then).
UploadKept ==
    (http.route \in UploadRoutes /\ ThisUpload \in uploads) =>
        /\ http.status # 200 => ~Referenced(ThisUpload)
        /\ (http.status = 200 /\ http.route # "POST /api/profile") =>
               Referenced(ThisUpload)

\* C16: in the routes that take an upload no step removes a file from
\* uploads/, and the file a request uploaded stays there when the request's
\* store call fails: it is then referenced by no record.
C16_FailedRequestLeavesUpload ==
    /\ [][uploads \subseteq uploads']_vars
    /\ []UploadKept

\* An upload route's insert failed, the answer was 500 and the uploaded file
\* is in uploads/, referenced by no record.
C16_Witness ==
    /\ http.route \in {"POST /api/gallery", "POST /api/videos"}
    /\ http.threw
    /\ http.status = 500
    /\ ThisUpload \in uploads
    /\ ~Referenced(ThisUpload)

\* C17: a request's store call (insert, update, delete or write) on one
\* table leaves the file of every other table as it was; a DELETE of a
\* service leaves the bookings as they were, those whose service_name is the
\* deleted service's name included.
C17_OtherTablesUnchanged ==
    http.route # "none" =>
        /\ \A t \in dbFiles \ {http.table} : files[t] = prev[t]
        /\ http.route = "DELETE /api/services/:id" =>
               /\ files["bookings"] = prev["bookings"]
               /\ \A i \in 1..Len(DbRead(prev, "bookings").value) :
                      DbRead(files, "bookings").value[i] = DbRead(prev, "bookings").value[i]

\* A service was deleted and a booking still names it.
C17_Witness ==
    /\ http.route = "DELETE /api/services/:id"
    /\ http.status = 200
    /\ Len(DbRead(files, "services").value) < Len(DbRead(prev, "services").value)
    /\ \E i \in 1..Len(DbRead(files, "bookings").value) :
           \E j \in 1..Len(DbRead(prev, "services").value) :
               /\ Get(DbRead(files, "bookings").value[i], "service_name")
                      = Get(DbRead(prev, "services").value[j], "name")
               /\ \A k \in 1..Len(DbRead(files, "services").value) :
                      DbRead(files, "services").value[k] # DbRead(prev, "services").value[j]

\* The routes that update a record.
UpdateRoutes ==
    {"PUT /api/products/:id", "PUT /api/bookings/:id", "PUT /api/videos/:id",
     "POST /api/profile", "DELETE /api/profile/:id/photo"}

\* C19: a request to a route that updates a record leaves the id and the
\* created_at of every record of the table as they were: the fields the
\* handlers give to db.update hold neither.
C19_RoutesKeepIdAndCreatedAt ==
    http.route \in UpdateRoutes =>
        /\ Len(TableAfter) >= Len(TableBefore)
        /\ \A i \in 1..Len(TableBefore) :
               /\ Get(TableAfter[i], "id") = Get(TableBefore[i], "id")
               /\ Get(TableAfter[i], "created_at") = Get(TableBefore[i], "created_at")
               /\ Get(TableAfter[i], "id") # Undefined
               /\ Get(TableAfter[i], "created_at") # Undefined

\* A PUT has changed a stored product.
C19_Witness ==
    /\ http.route = "PUT /api/products/:id"
    /\ http.status = 200
    /\ Len(TableBefore) >= 1
    /\ TableAfter[1] # TableBefore[1]
    /\ Get(TableAfter[1], "id") = Get(TableBefore[1], "id")

\* The userId of the last POST /api/profile.
RequestedUserId == IF http.param = <<>> THEN Undefined ELSE Str(http.param)

\* The profiles whose userId is the requested one.
SameUser(data) == {i \in 1..Len(data) : Get(data[i], "userId") = RequestedUserId}

\* No two profiles have the same userId.
OneProfilePerUserId ==
    LET profiles == DbRead(files, "profiles").value
    IN  \A i, j \in 1..Len(profiles) :
            i # j => Get(profiles[i], "userId") # Get(profiles[j], "userId")

\* C20: the profiles table holds at most one record per userId; a
\* POST /api/profile whose userId is that of a profile updates that profile
\* in place, leaving the others as they were, and inserts nothing; one whose
\* userId no profile has appends a profile with that userId.
C20_ProfilePerUserId ==
    /\ OneProfilePerUserId
    /\ (http.route = "POST /api/profile" /\ http.status = 200) =>
           IF SameUser(TableBefore) # {}
           THEN /\ Len(TableAfter) = Len(TableBefore)
                /\ \A i \in 1..Len(TableBefore) :
                       i \notin SameUser(TableBefore) => TableAfter[i] = TableBefore[i]
           ELSE /\ Len(TableAfter) = Len(TableBefore) + 1
                /\ SubSeq(TableAfter, 1, Len(TableBefore)) = TableBefore
                /\ Get(TableAfter[Len(TableAfter)], "userId") = RequestedUserId

=============================================================================
